---- MODULE Spec2Model ----
(***************************************************************************)
(* Model of the telegram_bot text format: format::escape_tags, the         *)
(* character scanner of format::parse with its open-tag stack,             *)
(* format::create_tag, Style::decorate and request::to_html.               *)
(*                                                                         *)
(* A Rust String is a sequence of one-character strings.  A Decoration is  *)
(* a record [kind, target]; target is the Link payload and is the empty    *)
(* string for every other kind.                                            *)
(*                                                                         *)
(* The module also models SendMessage::execute and the polling loop that   *)
(* Bot::new spawns, with the channel between Bot::poll and the receiver.   *)
(***************************************************************************)
EXTENDS Integers, Sequences, FiniteSets, TLC

VARIABLES
  orig,             \* the caller's text
  escaped,          \* TRUE when the caller passed the text through escape_tags
  text,             \* parse's argument
  pos,              \* position of iter: index of the next character of text
  components,       \* parse: components
  open_tags,        \* parse: open_tags
  token,            \* parse: token
  building_tag,     \* parse: building_tag
  pc,               \* "start" | "scan" | "ok" | "err" | "html" | "html_err"
  error,            \* the tag field of the InvalidTagError returned by parse
  parts,            \* to_html: one record per component (opened tags, body, closed tags)
  html,             \* to_html: the returned String
  last,             \* what the last loop iteration of parse did (history)
  spans,            \* tag_links: the spans of the link finder, [link, str]
  name_arg,         \* Decoration::from: name
  from_result,      \* Decoration::from: the returned Option
  deco_arg,         \* Decoration::to_tag: self
  closing_arg,      \* Decoration::to_tag: closing
  to_tag_result,    \* Decoration::to_tag: the returned String
  message,          \* SendMessage: text, as [parses, amps, plain]
  buttons,          \* SendMessage: buttons, the byte length of each query
  exec_pc,          \* SendMessage::execute: "idle" | "html" | "limit" | "buttons" | "send" | "done"
  char_count,       \* SendMessage::execute: char_count
  sent,             \* the number of messages handed to the network
  exec_error,       \* SendMessage::execute: the ErrorKind of the returned Err, "none" for Ok
  ack,              \* Bot::new: ack, an Option<i32> as [some, value]
  poll_pc,          \* the polling task: "idle" | "request" | "await" | "updates" | "sleep" |
                    \* "ended" | "panicked"
  offset,           \* Bot::poll: get_updates.offset, an Option<i32>
  updates,          \* Bot::poll: the updates of the response still to be handled
  sleep_for,        \* Bot::poll: the Duration handed to time::sleep
  channel,          \* the mpsc channel between update_sender and update_receiver
  receiver_alive,   \* FALSE once update_receiver is dropped
  network_error_cooldown,  \* Bot: network_error_cooldown, in seconds
  handed,           \* what poll_update or await_update returned last
  polls,            \* the number of get_updates requests made (history)
  returned,         \* the ids of the updates the polls returned so far (history)
  sent_log,         \* the results update_sender.send accepted, in order (history)
  delivered,        \* the results handed to poll_update and await_update, in order (history)
  send_failed,      \* TRUE once update_sender.send returned a SendError (history)
  overflow_checks   \* TRUE when the crate is built with overflow checks (debug profile)

\* the state of parse and to_html
parse_vars == <<orig, escaped, text, pos, components, open_tags, token, building_tag,
                pc, error, parts, html, last>>

\* the state of the other operations
aux == <<spans, name_arg, from_result, deco_arg, closing_arg, to_tag_result,
         message, buttons, exec_pc, char_count, sent, exec_error>>

\* the state of the polling task, the channel and its receiver
poll_vars == <<ack, poll_pc, offset, updates, sleep_for, channel, receiver_alive,
               network_error_cooldown, handed, polls, returned, sent_log, delivered,
               send_failed, overflow_checks>>

vars == <<parse_vars, aux, poll_vars>>

(***************************************************************************)
(* Bounds of the input space                                               *)
(***************************************************************************)
MaxPieces == 3
MaxHtmlPieces == 3
MaxSpans == 3
MaxRows == 2
MaxRowButtons == 2

(***************************************************************************)
(* Strings                                                                 *)
(***************************************************************************)
LT == "<"
GT == ">"
BSL == "\\"
SLASH == "/"
COLON == ":"

RECURSIVE Flatten(_)
Flatten(ss) == IF ss = <<>> THEN <<>> ELSE Head(ss) \o Flatten(Tail(ss))

Reverse(s) == [i \in 1..Len(s) |-> s[Len(s) + 1 - i]]

\* str::replace(from, to) for a one-character pattern
RECURSIVE Replace(_, _, _)
Replace(s, from, to) ==
  IF s = <<>> THEN <<>>
  ELSE (IF Head(s) = from THEN to ELSE <<Head(s)>>) \o Replace(Tail(s), from, to)

\* index of the first occurrence of c in s, 0 when there is none
RECURSIVE IndexOf(_, _)
IndexOf(s, c) ==
  IF s = <<>> THEN 0
  ELSE IF Head(s) = c THEN 1
  ELSE LET r == IndexOf(Tail(s), c) IN IF r = 0 THEN 0 ELSE r + 1

(***************************************************************************)
(* Decoration                                                              *)
(***************************************************************************)
NameBold == <<"b","o","l","d">>
NameItalic == <<"i","t","a","l","i","c">>
NameUnderline == <<"u","n","d","e","r","l","i","n","e">>
NameUnderlined == <<"u","n","d","e","r","l","i","n","e","d">>
NameMonoSpace == <<"m","o","n","o","-","s","p","a","c","e">>
NameCode == <<"c","o","d","e">>
NameSpoiler == <<"s","p","o","i","l","e","r">>
NameLink == <<"l","i","n","k">>

Deco(k) == [kind |-> k, target |-> <<>>]
Link(t) == [kind |-> "Link", target |-> t]

None == [kind |-> "None", target |-> <<>>]

\* Decoration::name
name(d) ==
  CASE d.kind = "Bold" -> NameBold
    [] d.kind = "Italic" -> NameItalic
    [] d.kind = "Underlined" -> NameUnderline
    [] d.kind = "MonoSpace" -> NameMonoSpace
    [] d.kind = "Spoiler" -> NameSpoiler
    [] d.kind = "Link" -> NameLink

\* by_name without the alias of MonoSpace
by_name_no_code(n) ==
  CASE n = NameBold -> Deco("Bold")
    [] n = NameItalic -> Deco("Italic")
    [] n = NameUnderline -> Deco("Underlined")
    [] n = NameUnderlined -> Deco("Underlined")
    [] n = NameMonoSpace -> Deco("MonoSpace")
    [] n = NameSpoiler -> Deco("Spoiler")
    [] OTHER -> None

\* Decoration::by_name (generated by enum_assoc from the by_name attributes)
by_name(n) ==
  CASE n = NameBold -> Deco("Bold")
    [] n = NameItalic -> Deco("Italic")
    [] n = NameUnderline -> Deco("Underlined")
    [] n = NameUnderlined -> Deco("Underlined")
    [] n = NameMonoSpace -> Deco("MonoSpace")
    [] n = NameCode -> Deco("MonoSpace")
    [] n = NameSpoiler -> Deco("Spoiler")
    [] OTHER -> None

\* Decoration::from
from(n) == IF n = NameLink THEN Link(<<>>) ELSE by_name(n)

\* to_tag with the payload written in the closing tag too
to_tag_payload_always(d, closing) ==
  <<LT>> \o (IF closing THEN <<SLASH>> ELSE <<>>) \o name(d)
         \o (IF d.kind = "Link" THEN <<COLON>> \o d.target ELSE <<>>) \o <<GT>>

\* Decoration::to_tag
to_tag(d, closing) ==
  IF closing THEN <<LT, SLASH>> \o name(d) \o <<GT>>
  ELSE <<LT>> \o name(d)
              \o (IF d.kind = "Link" THEN <<COLON>> \o d.target ELSE <<>>) \o <<GT>>

(***************************************************************************)
(* Style                                                                   *)
(***************************************************************************)
\* decorate with a later decoration overwriting the entry of its name
RECURSIVE decorate_last_wins(_, _)
decorate_last_wins(tags, decorations) ==
  IF decorations = <<>> THEN tags
  ELSE LET d == Head(decorations) IN
       decorate_last_wins(
         IF \E i \in 1..Len(tags) : name(tags[i]) = name(d)
           THEN [i \in 1..Len(tags) |-> IF name(tags[i]) = name(d) THEN d ELSE tags[i]]
           ELSE Append(tags, d),
         Tail(decorations))

\* Style::decorate: tags is the Style's vector, decorations the arguments
RECURSIVE decorate(_, _)
decorate(tags, decorations) ==
  IF decorations = <<>> THEN tags
  ELSE LET d == Head(decorations) IN
       decorate(IF \E i \in 1..Len(tags) : name(tags[i]) = name(d)
                  THEN tags ELSE Append(tags, d),
                Tail(decorations))

\* create_component
create_component(content, tags) == [text |-> content, style |-> decorate(<<>>, tags)]

(***************************************************************************)
(* create_tag                                                              *)
(***************************************************************************)
MissingLinkTarget == <<"missing link target">>
MissingBracketPrefix == "missing closing bracket after '"

\* content.splitn(2, ':'): the first item
split_id(content) ==
  LET colon == IndexOf(content, COLON)
  IN  IF colon = 0 THEN content ELSE SubSeq(content, 1, colon - 1)

\* the second item with a missing target defaulting to the empty string
split_rest_default(content) ==
  LET colon == IndexOf(content, COLON)
  IN  IF colon = 0 THEN [some |-> TRUE, value |-> <<>>]
      ELSE [some |-> TRUE, value |-> SubSeq(content, colon + 1, Len(content))]

\* the second item of content.split(':'): the target ends at the next ':'
split_rest_all_colons(content) ==
  LET colon == IndexOf(content, COLON)
      after == SubSeq(content, colon + 1, Len(content))
      next == IndexOf(after, COLON)
  IN  IF colon = 0 THEN [some |-> FALSE, value |-> <<>>]
      ELSE [some |-> TRUE,
            value |-> IF next = 0 THEN after ELSE SubSeq(after, 1, next - 1)]

\* content.splitn(2, ':'): the second item, [some, value]
split_rest(content) ==
  LET colon == IndexOf(content, COLON)
  IN  IF colon = 0 THEN [some |-> FALSE, value |-> <<>>]
      ELSE [some |-> TRUE, value |-> SubSeq(content, colon + 1, Len(content))]

\* id.starts_with('/')
is_closing(id) == id # <<>> /\ Head(id) = SLASH

\* the payload being the name instead of the whole tag body
unknown_tag_error_name(content, nm) == nm

\* the payload of the InvalidTagError for a name that resolves to no Decoration
unknown_tag_error(content, nm) == content

\* the result of create_tag: [ok, decoration, closing, err]
create_tag(content) ==
  LET id == split_id(content)
      closing == is_closing(id)
      nm == IF closing THEN Tail(id) ELSE id
      decoration == from(nm)
      rest == split_rest(content)
  IN  IF decoration = None
        THEN [ok |-> FALSE, decoration |-> None, closing |-> closing,
              err |-> unknown_tag_error(content, nm)]
      ELSE IF ~closing /\ decoration.kind = "Link"
        THEN IF rest.some
               THEN [ok |-> TRUE, decoration |-> Link(rest.value), closing |-> FALSE,
                     err |-> <<>>]
               ELSE [ok |-> FALSE, decoration |-> None, closing |-> FALSE,
                     err |-> MissingLinkTarget]
      ELSE [ok |-> TRUE, decoration |-> decoration, closing |-> closing, err |-> <<>>]

(***************************************************************************)
(* escape_tags                                                             *)
(***************************************************************************)
\* escape_tags with the backslash replaced last
escape_tags_backslash_last(s) ==
  Replace(Replace(Replace(s, LT, <<BSL, LT>>), GT, <<BSL, GT>>), BSL, <<BSL, BSL>>)

escape_tags(s) ==
  Replace(Replace(Replace(s, BSL, <<BSL, BSL>>), LT, <<BSL, LT>>), GT, <<BSL, GT>>)

(***************************************************************************)
(* tag_links                                                               *)
(***************************************************************************)
\* tag_links with every span tagged, whatever its kind
RECURSIVE tag_links_all(_)
tag_links_all(sp) ==
  IF sp = <<>> THEN <<>>
  ELSE LET span == Head(sp)
           tag == Link(span.str)
       IN  (to_tag(tag, FALSE) \o span.str \o to_tag(tag, TRUE)) \o tag_links_all(Tail(sp))

\* tag_links: sp is what LinkFinder::new().spans(text) yields
RECURSIVE tag_links(_)
tag_links(sp) ==
  IF sp = <<>> THEN <<>>
  ELSE LET span == Head(sp)
           tag == Link(span.str)
       IN  (IF span.link
              THEN to_tag(tag, FALSE) \o span.str \o to_tag(tag, TRUE)
              ELSE span.str)
           \o tag_links(Tail(sp))

(***************************************************************************)
(* to_html                                                                 *)
(***************************************************************************)
HtmlB == <<"b">>
HtmlI == <<"i">>
HtmlU == <<"u">>
HtmlCode == <<"c","o","d","e">>
HtmlSpoiler == <<"t","g","-","s","p","o","i","l","e","r">>
HtmlA == <<"a">>
HrefOpen == <<"a"," ","h","r","e","f","=","\"">>
Amp == <<"&","a","m","p",";">>
Lt == <<"&","l","t",";">>
Gt == <<"&","g","t",";">>

\* the name with the tag of Italic copied to Underlined
html_tag_copied(d) ==
  CASE d.kind = "Bold" -> HtmlB
    [] d.kind = "Italic" -> HtmlI
    [] d.kind = "Underlined" -> HtmlI
    [] d.kind = "MonoSpace" -> HtmlCode
    [] d.kind = "Spoiler" -> HtmlSpoiler
    [] d.kind = "Link" -> HtmlA

\* the name pushed on opened_html_tags for one Decoration
html_tag(d) ==
  CASE d.kind = "Bold" -> HtmlB
    [] d.kind = "Italic" -> HtmlI
    [] d.kind = "Underlined" -> HtmlU
    [] d.kind = "MonoSpace" -> HtmlCode
    [] d.kind = "Spoiler" -> HtmlSpoiler
    [] d.kind = "Link" -> HtmlA

\* what is written between "<" and ">" of the opening tag of one Decoration
html_open(d) ==
  IF d.kind = "Link" THEN HrefOpen \o d.target \o <<"\"">> ELSE html_tag(d)

\* opened_html_tags after the loop over component.style.tags()
opened_html_tags(style) == [i \in 1..Len(style) |-> html_tag(style[i])]

\* the order in which the closing loop visits opened_html_tags
closing_order(opened) == opened

\* the replacements with '&' replaced last
html_escape_amp_last(s) == Replace(Replace(Replace(s, LT, Lt), GT, Gt), "&", Amp)

\* component.text.replace('&', "&amp;").replace('<', "&lt;").replace('>', "&gt;")
html_escape(s) == Replace(Replace(Replace(s, "&", Amp), LT, Lt), GT, Gt)

\* the closure of to_html's map: the rendering of one component
render(component) ==
  LET style == component.style
      opened == opened_html_tags(style)
      closed == closing_order(opened)
  IN  [open |-> opened,
       close |-> closed,
       body |-> html_escape(component.text),
       str |-> Flatten([i \in 1..Len(style) |-> <<LT>> \o html_open(style[i]) \o <<GT>>])
               \o html_escape(component.text)
               \o Flatten([i \in 1..Len(closed) |-> <<LT, SLASH>> \o closed[i] \o <<GT>>])]

(***************************************************************************)
(* Inputs                                                                  *)
(***************************************************************************)
Pieces ==
  { <<LT>> \o NameBold \o <<GT>>,
    <<LT, SLASH>> \o NameBold \o <<GT>>,
    <<LT>> \o NameCode \o <<GT>>,
    <<LT, SLASH>> \o NameMonoSpace \o <<GT>>,
    <<LT>> \o NameLink \o <<COLON, "a", GT>>,
    <<LT>> \o NameLink \o <<COLON, "b", COLON, "c", GT>>,
    <<LT, SLASH>> \o NameLink \o <<GT>>,
    <<LT, SLASH>> \o NameLink \o <<COLON, "a", GT>>,
    <<LT>> \o NameLink \o <<GT>>,
    <<LT>> \o NameLink \o <<COLON>>,
    <<LT, "b", GT>>,
    <<"x">>, <<BSL>>, <<LT>>, <<GT>>, <<SLASH>> }

Inputs == { Flatten(ps) : ps \in UNION { [1..n -> Pieces] : n \in 0..MaxPieces } }

NoTag == [ok |-> FALSE, decoration |-> None, closing |-> FALSE, err |-> <<>>]
NoStep == [arm |-> "none", tag |-> NoTag, before |-> <<>>, content |-> <<>>]

NoMessage == [parses |-> TRUE, amps |-> 0, plain |-> 0]

\* nothing handed to the receiving side yet
NoResult == [ok |-> FALSE, id |-> 0, kind |-> "Nothing", edit |-> FALSE]

\* Option<i32>
NoneI32 == [some |-> FALSE, value |-> 0]
SomeI32(n) == [some |-> TRUE, value |-> n]

\* Duration::from_secs(2), the cooldown Bot::new starts with
DEFAULT_COOLDOWN == 2

\* no polling task
PollIdle ==
  /\ ack = NoneI32
  /\ poll_pc = "idle"
  /\ offset = NoneI32
  /\ updates = <<>>
  /\ sleep_for = 0
  /\ channel = <<>>
  /\ receiver_alive = TRUE
  /\ network_error_cooldown = DEFAULT_COOLDOWN
  /\ handed = NoResult
  /\ polls = 0
  /\ returned = {}
  /\ sent_log = <<>>
  /\ delivered = <<>>
  /\ send_failed = FALSE
  /\ overflow_checks = FALSE

\* no call of tag_links, Decoration::from, Decoration::to_tag or execute, no polling task
AuxIdle ==
  /\ spans = <<>>
  /\ name_arg = <<>>
  /\ from_result = None
  /\ deco_arg = None
  /\ closing_arg = FALSE
  /\ to_tag_result = <<>>
  /\ message = NoMessage
  /\ buttons = <<>>
  /\ exec_pc = "idle"
  /\ char_count = 0
  /\ sent = 0
  /\ exec_error = "none"
  /\ PollIdle

Init ==
  /\ AuxIdle
  /\ orig \in Inputs
  /\ escaped = FALSE
  /\ text = <<>>
  /\ pos = 1
  /\ components = <<>>
  /\ open_tags = <<>>
  /\ token = <<>>
  /\ building_tag = FALSE
  /\ pc = "start"
  /\ error = <<>>
  /\ parts = <<>>
  /\ html = <<>>
  /\ last = NoStep

(***************************************************************************)
(* The callers of parse                                                    *)
(***************************************************************************)
\* parse(text)
CallParse ==
  /\ pc = "start"
  /\ text' = orig
  /\ escaped' = FALSE
  /\ pc' = "scan"
  /\ UNCHANGED <<poll_vars, aux, orig, pos, components, open_tags, token, building_tag, error,
                 parts, html, last>>

\* parse(&escape_tags(text))
CallParseEscaped ==
  /\ pc = "start"
  /\ text' = escape_tags(orig)
  /\ escaped' = TRUE
  /\ pc' = "scan"
  /\ UNCHANGED <<poll_vars, aux, orig, pos, components, open_tags, token, building_tag, error,
                 parts, html, last>>

(***************************************************************************)
(* parse: one action per arm of the match, one for the end of the input    *)
(***************************************************************************)
\* find instead of rfind: the index of the first entry whose name is n
find_first(tags, n) ==
  LET hits == { i \in 1..Len(tags) : name(tags[i]) = n }
  IN  IF hits = {} THEN 0 ELSE CHOOSE i \in hits : \A j \in hits : i <= j

\* index of the last entry of tags whose name is n, 0 when there is none
rfind(tags, n) ==
  LET hits == { i \in 1..Len(tags) : name(tags[i]) = n }
  IN  IF hits = {} THEN 0 ELSE CHOOSE i \in hits : \A j \in hits : j <= i

\* Vec::remove(index)
remove(tags, index) == SubSeq(tags, 1, index - 1) \o SubSeq(tags, index + 1, Len(tags))

\* the closing branch removing every entry of the name
close_tag_all(tags, decoration) ==
  SelectSeq(tags, LAMBDA t : name(t) # name(decoration))

\* the closing branch of the '>' arm
close_tag(tags, decoration) ==
  LET index == rfind(tags, name(decoration))
  IN  IF index = 0 THEN tags ELSE remove(tags, index)

\* the flush of the '<' arm without the test for an empty token
flush_always(comps, tok, tags) == Append(comps, create_component(tok, tags))

\* the flush of the '<' arm
flush(comps, tok, tags) ==
  IF tok # <<>> THEN Append(comps, create_component(tok, tags)) ELSE comps

\* the end of the input without its flush
final_flush_none(comps, tok, tags) == comps

\* the flush at the end of the input
final_flush(comps, tok, tags) == Append(comps, create_component(tok, tags))

Scanning == pc = "scan" /\ pos <= Len(text)

\* '<' if !building_tag
ArmOpenBracket ==
  /\ Scanning
  /\ text[pos] = LT /\ ~building_tag
  /\ components' = flush(components, token, open_tags)
  /\ token' = <<>>
  /\ building_tag' = TRUE
  /\ pos' = pos + 1
  /\ last' = [arm |-> "open", tag |-> NoTag, before |-> open_tags, content |-> token]
  /\ UNCHANGED <<poll_vars, aux, orig, escaped, text, open_tags, pc, error, parts, html>>

\* '>' if building_tag
ArmCloseBracket ==
  /\ Scanning
  /\ text[pos] = GT /\ building_tag
  /\ LET tag == create_tag(token) IN
       /\ last' = [arm |-> "tag", tag |-> tag, before |-> open_tags, content |-> token]
       /\ IF ~tag.ok
            THEN /\ pc' = "err"
                 /\ error' = tag.err
                 /\ components' = <<>>
                 /\ UNCHANGED <<open_tags, token>>
            ELSE /\ token' = <<>>
                 /\ open_tags' = IF tag.closing
                                   THEN close_tag(open_tags, tag.decoration)
                                   ELSE Append(open_tags, tag.decoration)
                 /\ UNCHANGED <<pc, error, components>>
  /\ building_tag' = FALSE
  /\ pos' = pos + 1
  /\ UNCHANGED <<poll_vars, aux, orig, escaped, text, parts, html>>

\* the escape test only outside a bracket
IsEscapeOutsideBracket ==
  ~building_tag /\ text[pos] = BSL /\ pos < Len(text) /\ text[pos + 1] \in {LT, GT, BSL}

IsEscape == text[pos] = BSL /\ pos < Len(text) /\ text[pos + 1] \in {LT, GT, BSL}

\* '\\' if the next character is one of '<', '>', '\\'
ArmEscape ==
  /\ Scanning
  /\ IsEscape
  /\ token' = Append(token, text[pos + 1])
  /\ pos' = pos + 2
  /\ last' = [arm |-> "escape", tag |-> NoTag, before |-> open_tags, content |-> token]
  /\ UNCHANGED <<poll_vars, aux, orig, escaped, text, components, open_tags, building_tag, pc, error,
                 parts, html>>

\* _ => token.push(c)
ArmOther ==
  /\ Scanning
  /\ ~(text[pos] = LT /\ ~building_tag)
  /\ ~(text[pos] = GT /\ building_tag)
  /\ ~IsEscape
  /\ token' = Append(token, text[pos])
  /\ pos' = pos + 1
  /\ last' = [arm |-> "char", tag |-> NoTag, before |-> open_tags, content |-> token]
  /\ UNCHANGED <<poll_vars, aux, orig, escaped, text, components, open_tags, building_tag, pc, error,
                 parts, html>>

\* the end of the input failing on tags still open
EndOfInputStrict ==
  /\ pc = "scan" /\ pos > Len(text)
  /\ IF ~building_tag /\ open_tags = <<>>
       THEN /\ components' = final_flush(components, token, open_tags)
            /\ pc' = "ok"
            /\ UNCHANGED error
       ELSE /\ error' = <<MissingBracketPrefix>> \o token \o <<"'">>
            /\ components' = <<>>
            /\ pc' = "err"
  /\ last' = [arm |-> "end", tag |-> NoTag, before |-> open_tags, content |-> token]
  /\ UNCHANGED <<poll_vars, aux, orig, escaped, text, pos, open_tags, token, building_tag, parts, html>>

\* the code after the loop
EndOfInput ==
  /\ pc = "scan" /\ pos > Len(text)
  /\ IF ~building_tag
       THEN /\ components' = final_flush(components, token, open_tags)
            /\ pc' = "ok"
            /\ UNCHANGED error
       ELSE /\ error' = <<MissingBracketPrefix>> \o token \o <<"'">>
            /\ components' = <<>>
            /\ pc' = "err"
  /\ last' = [arm |-> "end", tag |-> NoTag, before |-> open_tags, content |-> token]
  /\ UNCHANGED <<poll_vars, aux, orig, escaped, text, pos, open_tags, token, building_tag, parts, html>>

(***************************************************************************)
(* to_html, after parse returned                                           *)
(***************************************************************************)
ToHtml ==
  /\ pc = "ok"
  /\ parts' = [i \in 1..Len(components) |-> render(components[i])]
  /\ html' = Flatten([i \in 1..Len(components) |-> render(components[i]).str])
  /\ pc' = "html"
  /\ UNCHANGED <<poll_vars, aux, orig, escaped, text, pos, components, open_tags, token, building_tag,
                 error, last>>

ToHtmlErr ==
  /\ pc = "err"
  /\ pc' = "html_err"
  /\ UNCHANGED <<poll_vars, aux, orig, escaped, text, pos, components, open_tags, token, building_tag,
                 error, parts, html, last>>

Next ==
  \/ CallParse
  \/ CallParseEscaped
  \/ ArmOpenBracket
  \/ ArmCloseBracket
  \/ ArmEscape
  \/ ArmOther
  \/ EndOfInput
  \/ ToHtml
  \/ ToHtmlErr

Spec == Init /\ [][Next]_vars

(***************************************************************************)
(* to_html on texts of all decoration kinds, '&' and '"'                   *)
(***************************************************************************)
HtmlPieces ==
  { <<LT>> \o NameBold \o <<GT>>,
    <<LT, SLASH>> \o NameBold \o <<GT>>,
    <<LT>> \o NameItalic \o <<GT>>,
    <<LT>> \o NameUnderlined \o <<GT>>,
    <<LT>> \o NameMonoSpace \o <<GT>>,
    <<LT>> \o NameSpoiler \o <<GT>>,
    <<LT>> \o NameLink \o <<COLON, "a", GT>>,
    <<LT>> \o NameLink \o <<COLON>>,
    <<"x">>, <<"&">>, <<"\"">>, <<BSL>>, <<LT>>, <<GT>> }

HtmlInputs == { Flatten(ps) : ps \in UNION { [1..n -> HtmlPieces] : n \in 0..MaxHtmlPieces } }

InitHtml ==
  /\ AuxIdle
  /\ orig \in HtmlInputs
  /\ escaped = FALSE
  /\ text = <<>>
  /\ pos = 1
  /\ components = <<>>
  /\ open_tags = <<>>
  /\ token = <<>>
  /\ building_tag = FALSE
  /\ pc = "start"
  /\ error = <<>>
  /\ parts = <<>>
  /\ html = <<>>
  /\ last = NoStep

SpecHtml == InitHtml /\ [][Next]_vars

(***************************************************************************)
(* parse(&tag_links(text))                                                 *)
(***************************************************************************)
SpanTexts == { <<"x">>, <<"u", COLON, "v">>, <<LT>>, <<BSL, GT>> }

SpanValues == [link : BOOLEAN, str : SpanTexts]

SpanInputs == UNION { [1..n -> SpanValues] : n \in 0..MaxSpans }

InitLinks ==
  /\ spans \in SpanInputs
  /\ name_arg = <<>>
  /\ from_result = None
  /\ deco_arg = None
  /\ closing_arg = FALSE
  /\ to_tag_result = <<>>
  /\ message = NoMessage
  /\ buttons = <<>>
  /\ exec_pc = "idle"
  /\ char_count = 0
  /\ sent = 0
  /\ exec_error = "none"
  /\ PollIdle
  /\ orig = <<>>
  /\ escaped = FALSE
  /\ text = <<>>
  /\ pos = 1
  /\ components = <<>>
  /\ open_tags = <<>>
  /\ token = <<>>
  /\ building_tag = FALSE
  /\ pc = "start"
  /\ error = <<>>
  /\ parts = <<>>
  /\ html = <<>>
  /\ last = NoStep

CallTagLinks ==
  /\ pc = "start"
  /\ orig' = tag_links(spans)
  /\ text' = tag_links(spans)
  /\ pc' = "scan"
  /\ UNCHANGED <<poll_vars, aux, escaped, pos, components, open_tags, token, building_tag, error,
                 parts, html, last>>

NextLinks ==
  \/ CallTagLinks
  \/ ArmOpenBracket
  \/ ArmCloseBracket
  \/ ArmEscape
  \/ ArmOther
  \/ EndOfInput
  \/ ToHtml
  \/ ToHtmlErr

SpecLinks == InitLinks /\ [][NextLinks]_vars

(***************************************************************************)
(* Decoration::from and Decoration::to_tag on their own                    *)
(***************************************************************************)
Pending == [kind |-> "Pending", target |-> <<>>]

NameInputs ==
  { NameBold, NameItalic, NameUnderline, NameUnderlined, NameMonoSpace, NameCode,
    NameSpoiler, NameLink,
    <<>>, <<"b">>, <<"B","o","l","d">>, <<"B","O","L","D">>, <<" ">> \o NameBold,
    NameBold \o <<" ">>, NameLink \o <<"s">>, <<"L","i","n","k">>,
    <<"u","n","d","e","r","l","i","n">>, <<"m","o","n","o","s","p","a","c","e">>,
    <<"m","o","n","o","_","s","p","a","c","e">>, <<"s","t","r","i","k","e">>,
    NameLink \o <<COLON, "a">> }

DecoInputs ==
  { Deco("Bold"), Deco("Italic"), Deco("Underlined"), Deco("MonoSpace"), Deco("Spoiler"),
    Link(<<>>), Link(<<"a">>), Link(<<"b", COLON, "c">>) }

InitDecoration ==
  /\ name_arg \in NameInputs
  /\ from_result = Pending
  /\ deco_arg \in DecoInputs
  /\ closing_arg \in BOOLEAN
  /\ to_tag_result = <<>>
  /\ spans = <<>>
  /\ message = NoMessage
  /\ buttons = <<>>
  /\ exec_pc = "idle"
  /\ char_count = 0
  /\ sent = 0
  /\ exec_error = "none"
  /\ PollIdle
  /\ orig = <<>>
  /\ escaped = FALSE
  /\ text = <<>>
  /\ pos = 1
  /\ components = <<>>
  /\ open_tags = <<>>
  /\ token = <<>>
  /\ building_tag = FALSE
  /\ pc = "idle"
  /\ error = <<>>
  /\ parts = <<>>
  /\ html = <<>>
  /\ last = NoStep

\* Decoration::from(name)
CallFrom ==
  /\ from_result = Pending
  /\ from_result' = from(name_arg)
  /\ UNCHANGED <<poll_vars, parse_vars, spans, name_arg, deco_arg, closing_arg, to_tag_result,
                 message, buttons, exec_pc, char_count, sent, exec_error>>

\* decoration.to_tag(closing)
CallToTag ==
  /\ to_tag_result = <<>>
  /\ to_tag_result' = to_tag(deco_arg, closing_arg)
  /\ UNCHANGED <<poll_vars, parse_vars, spans, name_arg, from_result, deco_arg, closing_arg,
                 message, buttons, exec_pc, char_count, sent, exec_error>>

NextDecoration ==
  \/ CallFrom
  \/ CallToTag

SpecDecoration == InitDecoration /\ [][NextDecoration]_vars

(***************************************************************************)
(* SendMessage::execute                                                    *)
(*                                                                         *)
(* The text of a message is amps '&' characters followed by plain 'x'      *)
(* characters, and by an unterminated '<' when parses is FALSE.  buttons   *)
(* is the rows of buttons, each button the byte length of its query.       *)
(***************************************************************************)
MESSAGE_CHAR_LIMIT == 4096
QUERY_BYTE_LIMIT == 64

\* text.chars().count() of what to_html returns for the message
html_char_count(msg) == msg.amps * Len(html_escape(<<"&">>)) + msg.plain * Len(html_escape(<<"x">>))

\* the limit tests with >= in place of >
exceeds_or_reaches(count, limit) == count >= limit

\* char_count > MESSAGE_CHAR_LIMIT, bytes > QUERY_BYTE_LIMIT
exceeds(count, limit) == count > limit

\* self.buttons.iter().flat_map(|row| row)
flat_buttons(rows) == Flatten(rows)

MessageInputs ==
  [ parses : BOOLEAN,
    amps : {0, MESSAGE_CHAR_LIMIT \div 5, MESSAGE_CHAR_LIMIT \div 5 + 1},
    plain : {0, 1, MESSAGE_CHAR_LIMIT - 1, MESSAGE_CHAR_LIMIT, MESSAGE_CHAR_LIMIT + 1} ]

QueryInputs == {QUERY_BYTE_LIMIT, QUERY_BYTE_LIMIT + 1}

RowInputs == UNION { [1..n -> QueryInputs] : n \in 0..MaxRowButtons }

ButtonInputs == UNION { [1..n -> RowInputs] : n \in 0..MaxRows }

InitSend ==
  /\ message \in MessageInputs
  /\ buttons \in ButtonInputs
  /\ exec_pc = "html"
  /\ char_count = 0
  /\ sent = 0
  /\ exec_error = "none"
  /\ PollIdle
  /\ spans = <<>>
  /\ name_arg = <<>>
  /\ from_result = None
  /\ deco_arg = None
  /\ closing_arg = FALSE
  /\ to_tag_result = <<>>
  /\ orig = <<>>
  /\ escaped = FALSE
  /\ text = <<>>
  /\ pos = 1
  /\ components = <<>>
  /\ open_tags = <<>>
  /\ token = <<>>
  /\ building_tag = FALSE
  /\ pc = "idle"
  /\ error = <<>>
  /\ parts = <<>>
  /\ html = <<>>
  /\ last = NoStep

\* let text = to_html(&self.text)?; let char_count = text.chars().count();
ExecToHtml ==
  /\ exec_pc = "html"
  /\ IF message.parses
       THEN /\ char_count' = html_char_count(message)
            /\ exec_pc' = "limit"
            /\ UNCHANGED exec_error
       ELSE /\ exec_error' = "Other"
            /\ exec_pc' = "done"
            /\ UNCHANGED char_count
  /\ UNCHANGED <<poll_vars, parse_vars, spans, name_arg, from_result, deco_arg, closing_arg,
                 to_tag_result, message, buttons, sent>>

\* if char_count > MESSAGE_CHAR_LIMIT as usize { Err(...)?; }
ExecCharLimit ==
  /\ exec_pc = "limit"
  /\ IF exceeds(char_count, MESSAGE_CHAR_LIMIT)
       THEN /\ exec_error' = "MessageCharLimitReached"
            /\ exec_pc' = "done"
       ELSE /\ exec_pc' = "buttons"
            /\ UNCHANGED exec_error
  /\ UNCHANGED <<poll_vars, parse_vars, spans, name_arg, from_result, deco_arg, closing_arg,
                 to_tag_result, message, buttons, char_count, sent>>

\* the loop over the buttons
ExecButtons ==
  /\ exec_pc = "buttons"
  /\ IF \E i \in 1..Len(flat_buttons(buttons)) :
          exceeds(flat_buttons(buttons)[i], QUERY_BYTE_LIMIT)
       THEN /\ exec_error' = "Other"
            /\ exec_pc' = "done"
       ELSE /\ exec_pc' = "send"
            /\ UNCHANGED exec_error
  /\ UNCHANGED <<poll_vars, parse_vars, spans, name_arg, from_result, deco_arg, closing_arg,
                 to_tag_result, message, buttons, char_count, sent>>

\* self.runtime.block_on(async move { send_message.await }), which the network
\* lets succeed or fail
ExecSend ==
  /\ exec_pc = "send"
  /\ sent' = sent + 1
  /\ \E failed \in BOOLEAN : exec_error' = IF failed THEN "Other" ELSE "none"
  /\ exec_pc' = "done"
  /\ UNCHANGED <<poll_vars, parse_vars, spans, name_arg, from_result, deco_arg, closing_arg,
                 to_tag_result, message, buttons, char_count>>

NextSend ==
  \/ ExecToHtml
  \/ ExecCharLimit
  \/ ExecButtons
  \/ ExecSend

SpecSend == InitSend /\ [][NextSend]_vars

(***************************************************************************)
(* The polling task of Bot::new, the channel and its receiver              *)
(***************************************************************************)
MaxUpdateId == 4
MaxBatch == 2
MaxPolls == 3
MaxCooldown == 2

\* i32::MAX and i32::MIN, the range of ack and of get_updates.offset
I32_MAX == 2147483647
I32_MIN == (-I32_MAX) - 1

\* (*ack).max(Some(update.id)): None is below every Some
max(a, b) == IF ~a.some THEN b ELSE IF ~b.some THEN a
             ELSE IF a.value >= b.value THEN a ELSE b

\* ack + 1 of an i32 built without overflow checks
add_one(n) == IF n = I32_MAX THEN I32_MIN ELSE n + 1

\* the update ids the server hands out
UpdateIds == (1..MaxUpdateId) \cup {I32_MAX}

\* the kinds of tg::Update the match tells apart, each with whether the
\* conversion of its payload (update::Message::from and message.from(),
\* Query::from and chat_id()) is Some
UpdateKinds ==
  << [kind |-> "Message", some |-> TRUE],
     [kind |-> "Other", some |-> FALSE],
     [kind |-> "CallbackQuery", some |-> TRUE],
     [kind |-> "EditedMessage", some |-> TRUE],
     [kind |-> "Message", some |-> FALSE],
     [kind |-> "CallbackQuery", some |-> FALSE],
     [kind |-> "EditedMessage", some |-> FALSE] >>

\* tg::Update: the update with id i is of the kind UpdateKinds lists for i
UpdateInputs ==
  { [id |-> i, kind |-> UpdateKinds[((i - 1) % Len(UpdateKinds)) + 1].kind,
     some |-> UpdateKinds[((i - 1) % Len(UpdateKinds)) + 1].some] : i \in UpdateIds }

\* the response to get_updates: the server returns updates whose id is at
\* least the offset; without an offset, or with a negative one, any updates
Answers(off) ==
  { us \in UNION { [1..n -> UpdateInputs] : n \in 0..MaxBatch } :
      /\ \A i, j \in 1..Len(us) : i # j => us[i].id # us[j].id
      /\ (off.some /\ off.value >= 0) => \A i \in 1..Len(us) : us[i].id >= off.value }

\* Result<update::Update>, as it travels through the channel
OkUpdate(u, k, e) == [ok |-> TRUE, id |-> u.id, kind |-> k, edit |-> e]
NetworkError == [ok |-> FALSE, id |-> 0, kind |-> "Network", edit |-> FALSE]

\* what the receiving side can get besides a result of the channel: the None
\* of try_recv and the error of a recv without a sender
NoneResult == [ok |-> FALSE, id |-> 0, kind |-> "None", edit |-> FALSE]
SenderGone == [ok |-> FALSE, id |-> 0, kind |-> "Other", edit |-> FALSE]

\* what the match on update.kind sends: a sequence with one result, or none
wrap_message(u, edit) ==
  IF u.some THEN <<OkUpdate(u, "Message", edit)>> ELSE <<>>

results_of(u) ==
  CASE u.kind = "Message" -> wrap_message(u, FALSE)
    [] u.kind = "EditedMessage" -> wrap_message(u, TRUE)
    [] u.kind = "CallbackQuery" -> IF u.some THEN <<OkUpdate(u, "Query", FALSE)>> ELSE <<>>
    [] OTHER -> <<>>

\* the cooldown the closure handed to poll reads: nec_mutex.lock().unwrap().clone()
network_error_cooldown_supplier(cooldown) == cooldown

InitPoll ==
  /\ ack = NoneI32
  /\ poll_pc = "request"
  /\ offset = NoneI32
  /\ updates = <<>>
  /\ sleep_for = 0
  /\ channel = <<>>
  /\ receiver_alive = TRUE
  /\ network_error_cooldown = DEFAULT_COOLDOWN
  /\ handed = NoResult
  /\ polls = 0
  /\ returned = {}
  /\ sent_log = <<>>
  /\ delivered = <<>>
  /\ send_failed = FALSE
  /\ overflow_checks \in BOOLEAN
  /\ spans = <<>>
  /\ name_arg = <<>>
  /\ from_result = None
  /\ deco_arg = None
  /\ closing_arg = FALSE
  /\ to_tag_result = <<>>
  /\ message = NoMessage
  /\ buttons = <<>>
  /\ exec_pc = "idle"
  /\ char_count = 0
  /\ sent = 0
  /\ exec_error = "none"
  /\ orig = <<>>
  /\ escaped = FALSE
  /\ text = <<>>
  /\ pos = 1
  /\ components = <<>>
  /\ open_tags = <<>>
  /\ token = <<>>
  /\ building_tag = FALSE
  /\ pc = "idle"
  /\ error = <<>>
  /\ parts = <<>>
  /\ html = <<>>
  /\ last = NoStep

\* update_sender.send(result)?: the result is queued, or the receiver is gone
\* and the SendError ends poll and with it the loop of Bot::new
send(result, next_pc) ==
  IF receiver_alive
    THEN /\ channel' = Append(channel, result)
         /\ sent_log' = Append(sent_log, result)
         /\ poll_pc' = next_pc
         /\ UNCHANGED send_failed
    ELSE /\ send_failed' = TRUE
         /\ poll_pc' = "ended"
         /\ UNCHANGED <<channel, sent_log>>

\* get_updates.offset = ack.map(|ack| ack + 1); the request goes out.  With
\* overflow checks ack + 1 panics at i32::MAX, without them it wraps.
PollRequest ==
  /\ poll_pc = "request"
  /\ polls < MaxPolls
  /\ IF overflow_checks /\ ack.some /\ ack.value = I32_MAX
       THEN /\ poll_pc' = "panicked"
            /\ UNCHANGED <<offset, polls>>
       ELSE /\ offset' = IF ack.some THEN SomeI32(add_one(ack.value)) ELSE NoneI32
            /\ polls' = polls + 1
            /\ poll_pc' = "await"
  /\ UNCHANGED <<parse_vars, aux, overflow_checks, ack, updates, sleep_for, channel, receiver_alive,
                 network_error_cooldown, handed, returned, sent_log, delivered, send_failed>>

\* get_updates.await is Ok(updates)
GetUpdatesOk ==
  /\ poll_pc = "await"
  /\ \E us \in Answers(offset) :
        /\ updates' = us
        /\ returned' = returned \cup { us[i].id : i \in 1..Len(us) }
  /\ poll_pc' = "updates"
  /\ UNCHANGED <<parse_vars, aux, overflow_checks, ack, offset, sleep_for, channel, receiver_alive,
                 network_error_cooldown, handed, polls, sent_log, delivered, send_failed>>

\* one iteration of for update in updates
HandleUpdate ==
  /\ poll_pc = "updates"
  /\ updates # <<>>
  /\ ack' = max(ack, SomeI32(Head(updates).id))
  /\ updates' = Tail(updates)
  /\ IF results_of(Head(updates)) = <<>>
       THEN UNCHANGED <<channel, sent_log, poll_pc, send_failed>>
       ELSE send(results_of(Head(updates))[1], "updates")
  /\ UNCHANGED <<parse_vars, aux, overflow_checks, offset, sleep_for, receiver_alive,
                 network_error_cooldown, handed, polls, returned, delivered>>

\* the loop over the updates is through: poll returns Ok(()) and the loop of
\* Bot::new calls it again
PollOk ==
  /\ poll_pc = "updates"
  /\ updates = <<>>
  /\ poll_pc' = "request"
  /\ UNCHANGED <<parse_vars, aux, overflow_checks, ack, offset, updates, sleep_for, channel, receiver_alive,
                 network_error_cooldown, handed, polls, returned, sent_log, delivered,
                 send_failed>>

\* get_updates.await is Err(e): the cooldown is read and the sleep starts
GetUpdatesErr ==
  /\ poll_pc = "await"
  /\ sleep_for' = network_error_cooldown_supplier(network_error_cooldown)
  /\ poll_pc' = "sleep"
  /\ UNCHANGED <<parse_vars, aux, overflow_checks, ack, offset, updates, channel, receiver_alive,
                 network_error_cooldown, handed, polls, returned, sent_log, delivered,
                 send_failed>>

\* the sleep is over: the Err of kind Network is sent and poll returns
SendNetworkError ==
  /\ poll_pc = "sleep"
  /\ send(NetworkError, "request")
  /\ UNCHANGED <<parse_vars, aux, overflow_checks, ack, offset, updates, sleep_for, receiver_alive,
                 network_error_cooldown, handed, polls, returned, delivered>>

\* self.update_receiver.try_recv().ok()
poll_update ==
  /\ receiver_alive
  /\ IF channel # <<>>
       THEN /\ handed' = Head(channel)
            /\ delivered' = Append(delivered, Head(channel))
            /\ channel' = Tail(channel)
       ELSE /\ handed' = NoneResult
            /\ UNCHANGED <<delivered, channel>>
  /\ UNCHANGED <<parse_vars, aux, overflow_checks, ack, poll_pc, offset, updates, sleep_for, receiver_alive,
                 network_error_cooldown, polls, returned, sent_log, send_failed>>

\* self.update_receiver.recv(): blocks until a result is queued or the sender
\* is dropped, which happens when the polling task is over
await_update ==
  /\ receiver_alive
  /\ channel # <<>> \/ poll_pc \in {"ended", "panicked"}
  /\ IF channel # <<>>
       THEN /\ handed' = Head(channel)
            /\ delivered' = Append(delivered, Head(channel))
            /\ channel' = Tail(channel)
       ELSE /\ handed' = SenderGone
            /\ UNCHANGED <<delivered, channel>>
  /\ UNCHANGED <<parse_vars, aux, overflow_checks, ack, poll_pc, offset, updates, sleep_for, receiver_alive,
                 network_error_cooldown, polls, returned, sent_log, send_failed>>

\* *self.network_error_cooldown.lock().unwrap() = network_error_cooldown
set_network_error_cooldown ==
  /\ receiver_alive
  /\ \E d \in 1..MaxCooldown : network_error_cooldown' = d
  /\ UNCHANGED <<parse_vars, aux, overflow_checks, ack, poll_pc, offset, updates, sleep_for, channel,
                 receiver_alive, handed, polls, returned, sent_log, delivered, send_failed>>

\* the last clone of the Bot is dropped, and update_receiver and its queue with it
DropBot ==
  /\ receiver_alive
  /\ receiver_alive' = FALSE
  /\ channel' = <<>>
  /\ UNCHANGED <<parse_vars, aux, overflow_checks, ack, poll_pc, offset, updates, sleep_for,
                 network_error_cooldown, handed, polls, returned, sent_log, delivered,
                 send_failed>>

\* the steps of the polling task
PollTask ==
  \/ PollRequest
  \/ GetUpdatesOk
  \/ HandleUpdate
  \/ PollOk
  \/ GetUpdatesErr
  \/ SendNetworkError

NextPoll ==
  \/ PollRequest
  \/ GetUpdatesOk
  \/ HandleUpdate
  \/ PollOk
  \/ GetUpdatesErr
  \/ SendNetworkError
  \/ poll_update
  \/ await_update
  \/ set_network_error_cooldown
  \/ DropBot

SpecPoll == InitPoll /\ [][NextPoll]_vars

\* the runtime keeps running the spawned task: a request is answered, a sleep
\* ends, and the synchronous code between two awaits runs on
SpecPollFair == SpecPoll /\ WF_vars(PollTask)

(***************************************************************************)
(* Vocabulary of the properties, stated on the text alone                  *)
(***************************************************************************)
Range(s) == { s[i] : i \in 1..Len(s) }

Special == {LT, GT, BSL}

IsPair(s) == Len(s) >= 2 /\ s[1] = BSL /\ s[2] \in Special

\* the text with every tag bracket removed and every escape pair replaced by
\* its second character
RECURSIVE Stripped(_, _)
Stripped(s, inTag) ==
  IF s = <<>> THEN <<>>
  ELSE IF IsPair(s)
    THEN (IF inTag THEN <<>> ELSE <<s[2]>>) \o Stripped(SubSeq(s, 3, Len(s)), inTag)
  ELSE IF ~inTag /\ s[1] = LT THEN Stripped(Tail(s), TRUE)
  ELSE IF inTag /\ s[1] = GT THEN Stripped(Tail(s), FALSE)
  ELSE (IF inTag THEN <<>> ELSE <<s[1]>>) \o Stripped(Tail(s), inTag)

\* the tag brackets of the text in input order: raw is what stands between the
\* brackets, body is raw with its escape pairs resolved, closed tells whether
\* the bracket's '>' was found
RECURSIVE Brackets(_, _, _, _)
Brackets(s, inTag, raw, body) ==
  IF s = <<>>
    THEN IF inTag THEN << [raw |-> raw, body |-> body, closed |-> FALSE] >> ELSE <<>>
  ELSE IF IsPair(s)
    THEN Brackets(SubSeq(s, 3, Len(s)), inTag,
                  IF inTag THEN raw \o <<s[1], s[2]>> ELSE raw,
                  IF inTag THEN Append(body, s[2]) ELSE body)
  ELSE IF ~inTag /\ s[1] = LT THEN Brackets(Tail(s), TRUE, <<>>, <<>>)
  ELSE IF inTag /\ s[1] = GT
    THEN << [raw |-> raw, body |-> body, closed |-> TRUE] >>
         \o Brackets(Tail(s), FALSE, <<>>, <<>>)
  ELSE Brackets(Tail(s), inTag,
                IF inTag THEN Append(raw, s[1]) ELSE raw,
                IF inTag THEN Append(body, s[1]) ELSE body)

BracketsOf(s) == Brackets(s, FALSE, <<>>, <<>>)

KnownNames ==
  { NameBold, NameItalic, NameUnderline, NameUnderlined, NameMonoSpace, NameCode,
    NameSpoiler, NameLink }

HasSlash(body) == body # <<>> /\ Head(body) = SLASH

\* the name of a tag body: after an optional leading '/', up to the first ':'
BodyName(body) ==
  LET b == IF HasSlash(body) THEN Tail(body) ELSE body
      colon == IndexOf(b, COLON)
  IN  IF colon = 0 THEN b ELSE SubSeq(b, 1, colon - 1)

UnknownName(body) == BodyName(body) \notin KnownNames

LinkWithoutTarget(body) ==
  ~HasSlash(body) /\ BodyName(body) = NameLink /\ COLON \notin Range(body)

Offending(b) == ~b.closed \/ UnknownName(b.body) \/ LinkWithoutTarget(b.body)

\* the offending brackets of the text, in input order
OffendingOf(s) == SelectSeq(BracketsOf(s), Offending)

\* the last character of the text is the '>' that closes a tag bracket
EndsWithTag(s) ==
  /\ s # <<>>
  /\ \A i \in 1..Len(BracketsOf(s)) : BracketsOf(s)[i].closed
  /\ LET pre == BracketsOf(SubSeq(s, 1, Len(s) - 1))
     IN  pre # <<>> /\ ~pre[Len(pre)].closed

Returned == pc \in {"ok", "err", "html", "html_err"}
Succeeded == pc \in {"ok", "html"}
Failed == pc \in {"err", "html_err"}

RECURSIVE ConcatText(_)
ConcatText(comps) ==
  IF comps = <<>> THEN <<>> ELSE Head(comps).text \o ConcatText(Tail(comps))

(***************************************************************************)
(* Properties                                                              *)
(***************************************************************************)

\* C1: for every text, parse(escape_tags(text)) succeeds and returns exactly
\* one Component whose text is the original text and whose Style is empty.
C1_EscapeRoundTrip ==
  (escaped /\ Returned) =>
    /\ Succeeded
    /\ Len(components) = 1
    /\ components[1].text = orig
    /\ components[1].style = <<>>

\* an escaped text holding all three special characters has been parsed
C1_Witness ==
  /\ escaped /\ pc = "ok"
  /\ Special \subseteq Range(orig)
  /\ components[1].text = orig

\* C2: a closing tag removes from the open-tag stack exactly the most recently
\* opened entry with its canonical name and leaves the other entries and their
\* order unchanged; with no such entry the stack is unchanged and parse goes on.
C2_ClosingTagStep ==
  /\ Scanning
  /\ text[pos] = GT /\ building_tag
  /\ ~UnknownName(token) /\ HasSlash(token)

C2_ClosingRemovesMostRecentMatch ==
  [][ C2_ClosingTagStep =>
        LET n == name(from(BodyName(token)))
            hits == { i \in 1..Len(open_tags) : name(open_tags[i]) = n }
        IN  /\ pc' = "scan"
            /\ hits = {} => open_tags' = open_tags
            /\ hits # {} =>
                 \E i \in hits :
                   /\ \A j \in hits : j <= i
                   /\ Len(open_tags') = Len(open_tags) - 1
                   /\ \A k \in 1..(i - 1) : open_tags'[k] = open_tags[k]
                   /\ \A k \in i..(Len(open_tags) - 1) : open_tags'[k] = open_tags[k + 1]
    ]_vars

\* the outer of two open tags was closed while the inner one stays open
C2_Witness ==
  /\ pc = "scan"
  /\ last.arm = "tag" /\ last.tag.ok /\ last.tag.closing
  /\ Len(last.before) = 2
  /\ name(last.before[1]) = name(last.tag.decoration)
  /\ name(last.before[2]) # name(last.tag.decoration)
  /\ open_tags = << last.before[2] >>

\* C3 as stated: in every successful parse result no Component has empty text.
C3_NoEmptyComponent ==
  Succeeded => \A i \in 1..Len(components) : components[i].text # <<>>

\* C3 amended: only the last Component of a successful result can have empty
\* text: a '<' outside a bracket emits a Component only for a non-empty buffer,
\* the end of the input emits the buffer as the last Component even when it is
\* empty (the input is empty or ends with a tag).
C3_OnlyLastComponentMayBeEmpty ==
  Succeeded =>
    /\ Len(components) >= 1
    /\ \A i \in 1..(Len(components) - 1) : components[i].text # <<>>
    /\ components[Len(components)].text = token
    /\ (token = <<>>) <=> (text = <<>> \/ EndsWithTag(text))

\* a text with text before a tag and a tag at its end: one non-empty Component
\* and the empty last one
C3_Witness ==
  /\ pc = "ok"
  /\ Len(components) = 2
  /\ components[1].text # <<>>
  /\ components[2].text = <<>>
  /\ Len(BracketsOf(text)) >= 2

\* C4: on success the texts of the Components, concatenated in order, are the
\* input with every tag bracket removed and every escape pair replaced by its
\* second character.
C4_ConcatIsStrippedInput ==
  Succeeded => ConcatText(components) = Stripped(text, FALSE)

\* a successful parse of a text with a tag, an escape pair and several Components
C4_Witness ==
  /\ pc = "ok" /\ ~escaped
  /\ Len(components) >= 2
  /\ BracketsOf(text) # <<>>
  /\ \E i \in 1..(Len(text) - 1) : IsPair(SubSeq(text, i, i + 1))
  /\ ConcatText(components) # <<>>

\* C5 as stated: parse fails whenever the open-tag stack is not empty at the
\* end of the input.
C5_SuccessNeedsEmptyStack == Succeeded => open_tags = <<>>

\* C5 amended: the stack is empty at parse start; at the end of the input
\* outside a bracket parse succeeds whatever the stack holds, and the last
\* Component carries the decorations of the tags still open.
C5_OpenTagsAtEndDoNotFail ==
  /\ pc = "start" => open_tags = <<>>
  /\ (last.arm = "end" /\ ~building_tag) =>
       /\ Succeeded
       /\ LET st == components[Len(components)].style
          IN  { name(open_tags[i]) : i \in 1..Len(open_tags) }
                = { name(st[i]) : i \in 1..Len(st) }

\* parse has returned Components with two tags still open
C5_Witness == pc = "ok" /\ Len(open_tags) = 2 /\ Len(components[Len(components)].style) = 2

\* C6: parse returns an error if and only if some tag bracket of the input has
\* a name that resolves to no Decoration, or is an opening link tag without
\* ':', or the input ends inside a bracket.
C6_ErrorIffOffendingBracket ==
  Returned => (Failed <=> OffendingOf(text) # <<>>)

\* parse has succeeded on a text with a closing tag that matches no open tag
C6_Witness ==
  /\ pc = "ok"
  /\ \E i \in 1..Len(BracketsOf(text)) : HasSlash(BracketsOf(text)[i].body)
  /\ \A i \in 1..Len(BracketsOf(text)) : HasSlash(BracketsOf(text)[i].body)

\* C7 as stated: the error of a failed parse carries the raw text of the first
\* offending tag (as it stands in the input or with its escape pairs resolved,
\* alone or quoted in the message of an unterminated tag).
C7_ErrorCarriesTagText ==
  Failed =>
    /\ OffendingOf(text) # <<>>
    /\ LET b == OffendingOf(text)[1]
       IN  error \in { b.raw, b.body,
                       <<MissingBracketPrefix>> \o b.raw \o <<"'">>,
                       <<MissingBracketPrefix>> \o b.body \o <<"'">> }

\* C7 amended: a failed parse returns no Components and the error of the first
\* offending tag in input order, whatever follows it: the tag body (escape
\* pairs resolved) for a name that resolves to no Decoration, the fixed text
\* "missing link target" for an opening link tag without ':', and "missing
\* closing bracket after '<body>'" for a bracket the input ends in.
C7_ErrorOfFirstOffendingTag ==
  Failed =>
    /\ components = <<>>
    /\ OffendingOf(text) # <<>>
    /\ LET b == OffendingOf(text)[1]
       IN  error = IF ~b.closed THEN <<MissingBracketPrefix>> \o b.body \o <<"'">>
                   ELSE IF UnknownName(b.body) THEN b.body
                   ELSE MissingLinkTarget

\* parse has failed on a text with two offending tags of different kinds
C7_Witness ==
  /\ pc = "err"
  /\ Len(OffendingOf(text)) = 2
  /\ UnknownName(OffendingOf(text)[1].body) /\ OffendingOf(text)[1].closed
  /\ LinkWithoutTarget(OffendingOf(text)[2].body)
  /\ error = OffendingOf(text)[1].body

\* C8: the target of an opening link tag is everything after the first ':' of
\* the tag body; an opening link tag without ':' makes parse fail; a closing
\* tag is accepted with or without a ':'-suffix, which is ignored.
LinkColon == NameLink \o <<COLON>>

C8_LinkTargetAfterFirstColon ==
  last.arm = "tag" =>
    LET c == last.content IN
    /\ (Len(c) >= 5 /\ SubSeq(c, 1, 5) = LinkColon) =>
         /\ pc = "scan"
         /\ open_tags = Append(last.before, Link(SubSeq(c, 6, Len(c))))
    /\ c = NameLink => (Failed /\ error = MissingLinkTarget)
    /\ (HasSlash(c) /\ ~UnknownName(c)) =>
         /\ pc = "scan"
         /\ last.tag.ok /\ last.tag.closing
         /\ last.tag.decoration = from(BodyName(c))

\* an opening link tag whose target holds a ':' has been pushed
C8_Witness ==
  /\ last.arm = "tag" /\ pc = "scan"
  /\ last.content = LinkColon \o <<"b", COLON, "c">>
  /\ open_tags # <<>>
  /\ open_tags[Len(open_tags)] = Link(<<"b", COLON, "c">>)

\* C9: a Style produced by parse holds no two decorations of the same name,
\* in the order their tags were opened, each being the first open one of its
\* name (of two open Link tags the first one's target is kept).
C9_StyleKeepsFirstOfEachName ==
  [][ Len(components') = Len(components) + 1 =>
        LET st == components'[Len(components')].style
            idx == { i \in 1..Len(open_tags) :
                       \A j \in 1..(i - 1) : name(open_tags[j]) # name(open_tags[i]) }
        IN  /\ \A a, b \in 1..Len(st) : a # b => name(st[a]) # name(st[b])
            /\ Len(st) = Cardinality(idx)
            /\ \A k \in 1..Len(st) :
                 st[k] = open_tags[CHOOSE i \in idx : Cardinality({ j \in idx : j <= i }) = k]
    ]_vars

\* a Component was emitted under two open Link tags with different targets and
\* carries the first one
C9_Witness ==
  /\ pc = "ok"
  /\ Len(open_tags) = 3
  /\ open_tags[1].kind = "Link" /\ open_tags[3].kind = "Link"
  /\ open_tags[1].target # open_tags[3].target
  /\ open_tags[2].kind # "Link"
  /\ components[Len(components)].style = << open_tags[1], open_tags[2] >>

\* C10: to_html emits the closing tags of a Component in the reverse of the
\* order in which it emitted the opening tags.
C10_ClosingTagsInReverseOrder ==
  pc = "html" => \A i \in 1..Len(parts) : parts[i].close = Reverse(parts[i].open)

(***************************************************************************)
(* Properties of to_html                                                   *)
(***************************************************************************)
\* the fixed mapping of a Decoration to what stands in its opening tag
OpeningOf(d) ==
  CASE d.kind = "Bold" -> <<"b">>
    [] d.kind = "Italic" -> <<"i">>
    [] d.kind = "Underlined" -> <<"u">>
    [] d.kind = "MonoSpace" -> <<"c","o","d","e">>
    [] d.kind = "Spoiler" -> <<"t","g","-","s","p","o","i","l","e","r">>
    [] d.kind = "Link" -> <<"a"," ","h","r","e","f","=","\"">> \o d.target \o <<"\"">>

\* the tag name of an opening: what stands before its first space
TagNameOf(d) ==
  LET o == OpeningOf(d)
      sp == IndexOf(o, " ")
  IN  IF sp = 0 THEN o ELSE SubSeq(o, 1, sp - 1)

Tagged(names, slash) ==
  Flatten([i \in 1..Len(names) |-> <<LT>> \o slash \o names[i] \o <<GT>>])

\* C11: to_html returns the concatenation, in Component order, of the
\* renderings: the opening tags in Style order under the fixed mapping, the
\* text, and exactly one closing tag for each tag name that was opened.
C11_HtmlIsConcatOfRenderings ==
  pc = "html" =>
    /\ Len(parts) = Len(components)
    /\ html = Flatten([i \in 1..Len(parts) |-> parts[i].str])
    /\ \A i \in 1..Len(parts) :
         LET st == components[i].style
             closed == parts[i].close
         IN  /\ parts[i].str = Tagged([k \in 1..Len(st) |-> OpeningOf(st[k])], <<>>)
                               \o parts[i].body
                               \o Tagged(closed, <<SLASH>>)
             /\ Len(closed) = Len(st)
             /\ \A k \in 1..Len(st) :
                  Cardinality({ j \in 1..Len(closed) : closed[j] = TagNameOf(st[k]) }) = 1

\* a Component with text, an Underlined and a Link decoration has been rendered
C11_Witness ==
  /\ pc = "html"
  /\ \E i \in 1..Len(components) :
       /\ components[i].text # <<>>
       /\ Len(components[i].style) = 2
       /\ components[i].style[1].kind = "Underlined"
       /\ components[i].style[2].kind = "Link"

\* one character of a Component's text as it stands in the output
EntityOf(c) ==
  CASE c = "&" -> <<"&","a","m","p",";">>
    [] c = "<" -> <<"&","l","t",";">>
    [] c = ">" -> <<"&","g","t",";">>
    [] OTHER -> <<c>>

\* C12: every '&', '<' and '>' of a Component's text stands in the output as
\* "&amp;", "&lt;" and "&gt;", each escaped exactly once, and every other
\* character is copied unchanged.
C12_TextEscapedOnce ==
  pc = "html" =>
    \A i \in 1..Len(parts) :
      LET t == components[i].text
      IN  parts[i].body = Flatten([k \in 1..Len(t) |-> EntityOf(t[k])])

\* a text holding '&' and '<' has been rendered
C12_Witness ==
  /\ pc = "html"
  /\ \E i \in 1..Len(components) : {"&", LT} \subseteq Range(components[i].text)

Count(s, c) == Cardinality({ i \in 1..Len(s) : s[i] = c })

RECURSIVE Sum(_)
Sum(ns) == IF ns = <<>> THEN 0 ELSE Head(ns) + Sum(Tail(ns))

\* the number of tags and of Link decorations of the rendered Components
TagsEmitted == Sum([i \in 1..Len(parts) |-> Len(parts[i].open) + Len(parts[i].close)])
LinksEmitted ==
  Sum([i \in 1..Len(components) |->
         Cardinality({ k \in 1..Len(components[i].style) :
                         components[i].style[k].kind = "Link" })])

\* the '"' that stand in the rendered text of the Components, where they end
\* no attribute
QuotesInText == Sum([i \in 1..Len(parts) |-> Count(parts[i].body, "\"")])

\* C19: the only '<' and '>' of the output, and the only '"' outside the
\* rendered text, are those of the renderer's own tags: one '<' and one '>'
\* for each tag, two '"' for each href; so no link target ends the href
\* attribute or the anchor tag or brings in a tag.
C19_OnlyRendererTagSyntax ==
  pc = "html" =>
    /\ Count(html, LT) = TagsEmitted
    /\ Count(html, GT) = TagsEmitted
    /\ Count(html, "\"") - QuotesInText = 2 * LinksEmitted

(***************************************************************************)
(* Properties of tag_links, Decoration::from and Decoration::to_tag        *)
(***************************************************************************)
OpenLink == <<"<","l","i","n","k",":">>
CloseLink == <<"<","/","l","i","n","k",">">>

SpanTagged(span) ==
  IF span.link THEN OpenLink \o span.str \o <<">">> \o span.str \o CloseLink ELSE span.str

\* the Components the spans stand for: one per link span, one per run of
\* plain spans
RECURSIVE SpanComponents(_, _)
SpanComponents(sp, plain) ==
  LET run == IF plain = <<>> THEN <<>> ELSE << [text |-> plain, style |-> <<>>] >>
  IN  IF sp = <<>> THEN run
      ELSE IF Head(sp).link
        THEN run \o << [text |-> Head(sp).str,
                        style |-> << [kind |-> "Link", target |-> Head(sp).str] >>] >>
                 \o SpanComponents(Tail(sp), <<>>)
      ELSE SpanComponents(Tail(sp), plain \o Head(sp).str)

HasText(c) == c.text # <<>>

SpansText == Flatten([i \in 1..Len(spans) |-> spans[i].str])

\* C13: tag_links returns the spans in order with each link span S replaced by
\* <link:S>S</link>; for an input free of '<', '>' and backslash, parsing the
\* result yields for each link span S one Component with text S and Style
\* [Link(S)], and the text of the plain spans with an empty Style.
C13_TagLinksWrapsLinkSpans ==
  /\ pc # "start" => text = Flatten([i \in 1..Len(spans) |-> SpanTagged(spans[i])])
  /\ (Returned /\ Range(SpansText) \cap Special = {}) =>
       /\ Succeeded
       /\ SelectSeq(components, HasText) = SpanComponents(spans, <<>>)

\* a plain span, a link span holding ':' and another plain span have been
\* tagged and parsed
C13_Witness ==
  /\ pc = "ok"
  /\ Len(spans) = 3
  /\ ~spans[1].link /\ spans[2].link /\ ~spans[3].link
  /\ COLON \in Range(spans[2].str)
  /\ Range(SpansText) \cap Special = {}
  /\ Len(components) = 3

\* the names Decoration::from resolves, with the kind of each
ResolvedKind(n) ==
  CASE n = <<"b","o","l","d">> -> "Bold"
    [] n = <<"i","t","a","l","i","c">> -> "Italic"
    [] n = <<"u","n","d","e","r","l","i","n","e">> -> "Underlined"
    [] n = <<"u","n","d","e","r","l","i","n","e","d">> -> "Underlined"
    [] n = <<"m","o","n","o","-","s","p","a","c","e">> -> "MonoSpace"
    [] n = <<"c","o","d","e">> -> "MonoSpace"
    [] n = <<"s","p","o","i","l","e","r">> -> "Spoiler"
    [] n = <<"l","i","n","k">> -> "Link"
    [] OTHER -> "None"

\* C14: Decoration::from resolves exactly bold, italic, underline, underlined,
\* mono-space, code, spoiler and link, compared exactly; aliases give the same
\* variant, link gives Link with an empty target, and from(d.name()) has the
\* kind of d.
C14_FromResolvesExactlyTheNames ==
  from_result # Pending =>
    /\ from_result.kind = ResolvedKind(name_arg)
    /\ from_result.target = <<>>
    /\ name_arg = name(deco_arg) => from_result.kind = deco_arg.kind

\* from has resolved the canonical name of a Link that carries a target
C14_Witness ==
  /\ from_result = [kind |-> "Link", target |-> <<>>]
  /\ deco_arg.kind = "Link" /\ deco_arg.target # <<>>
  /\ name_arg = name(deco_arg)

\* the canonical name of each kind
CanonicalName(k) ==
  CASE k = "Bold" -> <<"b","o","l","d">>
    [] k = "Italic" -> <<"i","t","a","l","i","c">>
    [] k = "Underlined" -> <<"u","n","d","e","r","l","i","n","e">>
    [] k = "MonoSpace" -> <<"m","o","n","o","-","s","p","a","c","e">>
    [] k = "Spoiler" -> <<"s","p","o","i","l","e","r">>
    [] k = "Link" -> <<"l","i","n","k">>

\* C15: to_tag(d, true) is </name> without payload; to_tag(d, false) is <name>,
\* and <link:target> for Link(target).
C15_ToTagSyntax ==
  to_tag_result # <<>> =>
    to_tag_result =
      IF closing_arg THEN <<"<", "/">> \o CanonicalName(deco_arg.kind) \o <<">">>
      ELSE IF deco_arg.kind = "Link" THEN <<"<","l","i","n","k",":">> \o deco_arg.target \o <<">">>
      ELSE <<"<">> \o CanonicalName(deco_arg.kind) \o <<">">>

\* the closing tag of a Link with a target has been built
C15_Witness ==
  /\ to_tag_result = <<"<","/","l","i","n","k",">">>
  /\ closing_arg
  /\ deco_arg.target = <<"b", COLON, "c">>

(***************************************************************************)
(* Properties of the scanner                                               *)
(***************************************************************************)
Kinds == {"Bold", "Italic", "Underlined", "MonoSpace", "Spoiler", "Link"}

CountKind(tags, k) == Cardinality({ i \in 1..Len(tags) : tags[i].kind = k })

\* the tags with only the first entry of each kind kept
RECURSIVE FirstOfEachKind(_, _)
FirstOfEachKind(tags, seen) ==
  IF tags = <<>> THEN <<>>
  ELSE IF Head(tags).kind \in seen THEN FirstOfEachKind(Tail(tags), seen)
  ELSE <<Head(tags)>> \o FirstOfEachKind(Tail(tags), seen \cup {Head(tags).kind})

C16_TagStep ==
  /\ Scanning
  /\ text[pos] = GT /\ building_tag
  /\ ~UnknownName(token) /\ ~LinkWithoutTarget(token)

\* C16: a Component carries the first-of-each-name de-duplication of the
\* open-tag stack at the moment it is flushed, so a kind applies to a text run
\* exactly when an entry of that kind is on the stack; an opening tag adds one
\* entry of its kind and a closing tag takes away one, so N nested opening
\* tags of a kind need N closing tags.
C16_StyleIsStackSnapshot ==
  [][ /\ Len(components') = Len(components) + 1 =>
           LET st == components'[Len(components')].style
           IN  /\ st = FirstOfEachKind(open_tags, {})
               /\ \A k \in Kinds : CountKind(st, k) > 0 <=> CountKind(open_tags, k) > 0
      /\ C16_TagStep =>
           LET tagKind == ResolvedKind(BodyName(token))
           IN  \A k \in Kinds :
                 CountKind(open_tags', k) =
                   IF k # tagKind THEN CountKind(open_tags, k)
                   ELSE IF ~HasSlash(token) THEN CountKind(open_tags, k) + 1
                   ELSE IF CountKind(open_tags, k) > 0 THEN CountKind(open_tags, k) - 1
                   ELSE 0
    ]_vars

\* two nested opening tags of one kind and one closing tag: the decoration
\* still applies to the last Component
C16_Witness ==
  /\ pc = "ok"
  /\ Len(BracketsOf(text)) = 3
  /\ ~HasSlash(BracketsOf(text)[1].body)
  /\ BracketsOf(text)[2].body = BracketsOf(text)[1].body
  /\ HasSlash(BracketsOf(text)[3].body)
  /\ Len(open_tags) = 1
  /\ ResolvedKind(BodyName(BracketsOf(text)[3].body)) = open_tags[1].kind
  /\ components[Len(components)].style = open_tags

\* C17: outside and inside a bracket alike, a backslash followed by '<', '>'
\* or a backslash appends only the following character, which opens and
\* closes no bracket; a backslash before any other character or at the end of
\* the input, a '>' outside a bracket and a '<' inside a bracket are appended
\* as they are.
C17_EscapesAndOrdinaryCharacters ==
  [][ Scanning =>
        LET c == text[pos]
            pair == c = BSL /\ pos < Len(text) /\ text[pos + 1] \in Special
        IN  /\ pair =>
                 /\ token' = Append(token, text[pos + 1])
                 /\ pos' = pos + 2
                 /\ building_tag' = building_tag
                 /\ open_tags' = open_tags /\ components' = components
            /\ (c = BSL /\ ~pair) =>
                 /\ token' = Append(token, BSL)
                 /\ pos' = pos + 1
                 /\ building_tag' = building_tag
            /\ (c = GT /\ ~building_tag) =>
                 token' = Append(token, GT) /\ ~building_tag' /\ pos' = pos + 1
            /\ (c = LT /\ building_tag) =>
                 token' = Append(token, LT) /\ building_tag' /\ pos' = pos + 1
    ]_vars

\* an escaped '>' has been appended inside a bracket, which stays open
C17_Witness ==
  /\ pc = "scan"
  /\ last.arm = "escape"
  /\ building_tag
  /\ token # <<>> /\ token[Len(token)] = GT
  /\ text[pos - 1] = GT /\ text[pos - 2] = BSL

(***************************************************************************)
(* Properties of SendMessage::execute                                      *)
(***************************************************************************)
\* the characters of the rendered message: five for each '&', one for each 'x'
RenderedChars == 5 * message.amps + message.plain

QueryTooLong == \E r \in 1..Len(buttons) : \E b \in 1..Len(buttons[r]) : buttons[r][b] > 64

\* C18: execute hands the message to the network only if the text parses, the
\* rendered HTML has at most 4096 characters and every query has at most 64
\* bytes; otherwise it returns an error and sends nothing.
C18_SendOnlyWithinLimits ==
  /\ sent > 0 => (message.parses /\ RenderedChars <= 4096 /\ ~QueryTooLong)
  /\ exec_pc = "done" =>
       /\ sent = (IF message.parses /\ RenderedChars <= 4096 /\ ~QueryTooLong THEN 1 ELSE 0)
       /\ sent = 0 => exec_error # "none"

\* a message of fewer source characters that renders to exactly 4096, with a
\* query of exactly 64 bytes, has been sent
C18_Witness ==
  /\ exec_pc = "done" /\ sent = 1 /\ exec_error = "none"
  /\ message.amps > 0
  /\ RenderedChars = 4096
  /\ \E r \in 1..Len(buttons) : \E b \in 1..Len(buttons[r]) : buttons[r][b] = 64

\* C20: every limit violation is reported with the ErrorKind of its limit.
C20_LimitErrorsHaveTheirKind ==
  (exec_pc = "done" /\ message.parses) =>
    /\ RenderedChars > 4096 => exec_error = "MessageCharLimitReached"
    /\ (RenderedChars <= 4096 /\ QueryTooLong) => exec_error = "QueryByteLimitReached"

(***************************************************************************)
(* The polling loop                                                        *)
(***************************************************************************)
Largest(S) == CHOOSE m \in S : \A n \in S : m >= n

\* the loop of Bot::new is running: poll is about to be called or is under way
LoopRuns == poll_pc \in {"request", "await", "updates", "sleep"}

\* the ids of the updates the channel took
SentIds == { sent_log[i].id : i \in { j \in 1..Len(sent_log) : sent_log[j].ok } }

\* ack does not decrease
AckStep == ack.some => ack'.some /\ ack'.value >= ack.value

\* between two polls ack is the largest id returned so far
AckIsLargestReturned ==
  poll_pc = "request" =>
    IF returned = {} THEN ~ack.some ELSE ack.some /\ ack.value = Largest(returned)

\* a request asks for ack + 1, which is above every id returned so far
OffsetIsAckPlusOne ==
  poll_pc = "await" =>
    /\ offset.some = ack.some
    /\ offset.some => ack.value < I32_MAX /\ offset.value = ack.value + 1
    /\ offset.some => \A id \in returned : offset.value > id

\* no update was put on the channel twice
NoUpdateSentTwice ==
  \A i, j \in 1..Len(sent_log) :
    sent_log[i].ok /\ sent_log[j].ok /\ sent_log[i].id = sent_log[j].id => i = j

\* C21: in the polling loop ack never decreases and, between two polls, is the
\* largest update id any poll returned so far, updates of ignored kinds
\* included; every poll requests offset ack + 1, which is above every id
\* already returned, and no update is put on the channel twice.
C21_AckFollowsLargestReturnedId ==
  /\ [][AckStep]_vars
  /\ [](AckIsLargestReturned /\ OffsetIsAckPlusOne /\ NoUpdateSentTwice)

\* sequence p is a prefix of sequence q
IsPrefix(p, q) == Len(p) <= Len(q) /\ \A i \in 1..Len(p) : p[i] = q[i]

\* get_updates fails: the cooldown of that moment is what the loop sleeps for,
\* and neither ack nor the channel changes
FailedPollStep ==
  (poll_pc = "await" /\ poll_pc' = "sleep") =>
    /\ sleep_for' = network_error_cooldown
    /\ ack' = ack
    /\ sent_log' = sent_log

\* the sleep ends: one Err of kind Network goes to a live receiver and the
\* loop is back at its head with the same ack; without a receiver it ends
AfterSleepStep ==
  (poll_pc = "sleep" /\ poll_pc' # "sleep") =>
    /\ ack' = ack
    /\ IF receiver_alive
         THEN /\ poll_pc' = "request"
              /\ sent_log' = Append(sent_log, NetworkError)
              /\ channel' = Append(channel, NetworkError)
         ELSE poll_pc' = "ended" /\ send_failed' /\ sent_log' = sent_log

\* an Err is sent only at the end of the sleep that follows a failed poll
ErrSentOnlyAfterSleep ==
  (sent_log' # sent_log /\ ~sent_log'[Len(sent_log')].ok) => poll_pc = "sleep"

\* the loop is over only after a send to the channel failed
LoopEndsOnlyOnFailedSend == ~LoopRuns => send_failed

\* the receiver gets the results in the order they were sent
FifoHandOver ==
  /\ IsPrefix(delivered, sent_log)
  /\ receiver_alive => delivered \o channel = sent_log

\* after a failed poll the loop is back at its head, unless the receiver is gone
FailedPollLeadsToNextPoll ==
  (poll_pc = "sleep") ~> (poll_pc = "request" \/ ~receiver_alive)

\* C22: a failed get_updates call does not end the polling loop while the
\* receiver is alive: the loop sleeps for the cooldown read at that moment,
\* sends exactly one Err of kind Network, leaves ack unchanged and polls
\* again; the loop ends only when a send to the channel fails, and the
\* results are handed to await_update and poll_update in the order they were
\* sent.
C22_FailedPollIsReportedAndLoopGoesOn ==
  /\ [][FailedPollStep /\ AfterSleepStep /\ ErrSentOnlyAfterSleep]_vars
  /\ [](LoopEndsOnlyOnFailedSend /\ FifoHandOver)
  /\ FailedPollLeadsToNextPoll

====
